---- MODULE Spec2Model ----
(***************************************************************************)
(* State-machine model of src/import/ImportWavPack.cpp: the WavPack import *)
(* plugin (Open), the import file handle (constructor, Import, destructor) *)
(* and the collaborators Import talks to: the decoding library's context,  *)
(* the progress dialog, the wave tracks, the caller's outTracks and the    *)
(* tag store.                                                              *)
(*                                                                         *)
(* The program is single threaded.  Import is split into its sequential    *)
(* steps (entry, one WavpackUnpackSamples call with the de-interleaving    *)
(* that follows it, one progress Update, the code after the loop); while a *)
(* handle is inside Import no other operation runs.                        *)
(*                                                                         *)
(* Scaling.  The chunk size SAMPLES_TO_READ (100000 in the source) and the *)
(* width of the uint32_t counter totalSamplesRead (32 bits in the source)  *)
(* are scaled down so that multi-chunk decodes and counter wrap-around are *)
(* within reach of exhaustive search; the arithmetic is kept as the code   *)
(* has it (addition modulo 2^width, comparison after promotion to 64 bit). *)
(***************************************************************************)
EXTENDS Integers, Sequences, FiniteSets, TLC

\* ------------------------------------------------------------------ bounds
MaxHandles == 2        \* handles (and library contexts) ever opened
MaxChannels == 2       \* channels of a file
MaxFrames == 4         \* sample frames one context can deliver
MaxItems == 2          \* tag items of a file
SAMPLES_TO_READ == 2   \* frames requested per chunk (source: 100000)
CounterBits == 2       \* width of totalSamplesRead (source: 32)

Handles == 1 .. MaxHandles
CounterMod == 2 ^ CounterBits

\* ------------------------------------------------- progress dialog results
Success == "Success"
Cancelled == "Cancelled"
Failed == "Failed"
Stopped == "Stopped"
ProgressResult == {Success, Cancelled, Failed, Stopped}

\* ------------------------------------------------------ sample formats
int16Sample == "int16Sample"
int24Sample == "int24Sample"
floatSample == "floatSample"

\* Bit depths a file can declare (WavpackGetBitsPerSample).
BitDepths == {16, 24, 32}

\* Constructor, lines 153-161: bit depth to sample format.
FormatOf(bits) ==
  IF bits <= 16 THEN int16Sample
  ELSE IF bits <= 24 THEN int24Sample
  ELSE floatSample

\* Declared sample counts (WavpackGetNumSamples64): -1 is "unknown".
DeclaredCounts == {-1} \cup (0 .. MaxFrames + 1)

\* Smallest and largest sample value of a bit depth; the decoder returns
\* right-justified values within this range in 32-bit words.
MaxSample(bits) == (2 ^ (bits - 2) - 1) + 2 ^ (bits - 2)
MinSample(bits) == -MaxSample(bits) - 1

\* What WaveTrack::Append reads from the 4 bytes at &wavpackBuffer[c] when
\* told the data has the given format and length 1: for int16Sample the
\* first two bytes (the low 16 bits on the little-endian targets), as a
\* signed 16-bit value; for int24Sample and floatSample all four bytes.
ReadSample(word, format) ==
  IF format = int16Sample
    THEN ((word + 2 ^ 15) % (2 ^ 16)) - 2 ^ 15
    ELSE word

\* A freshly created wave track (NewWaveTrack, line 185).
NewWaveTrack(format) == [format |-> format, samples |-> << >>, flushed |-> FALSE]

\* WaveTrack::Append of one sample (line 204).
TrackAppend(track, word, format) ==
  [track EXCEPT !.samples = Append(@, ReadSample(word, format))]

\* WaveTrack::Flush (line 220).
TrackFlush(track) == [track EXCEPT !.flushed = TRUE]

\* Lines 180-186: mChannels.resize(mNumChannels), every element replaced
\* by a new track of the handle's format.
NewChannels(numChannels, format) ==
  [c \in 1 .. numChannels |-> NewWaveTrack(format)]

\* ------------------------------------------------------- the decode loop
\* The interleaved words the decoder writes for a chunk of n frames, the
\* context standing at frame pos, of a file with the given channel count and
\* bit depth: n * numChannels words, every word of the stream different from
\* every other, alternating between the low and the high end of the range
\* of the bit depth.
Chunk(n, numChannels, bits, pos) ==
  [j \in 1 .. n * numChannels |->
     LET g == pos * numChannels + j
     IN IF g % 2 = 1 THEN MinSample(bits) + (g - 1)
                     ELSE MaxSample(bits) - (g - 1)]

\* Lines 202-205: the inner loop over the channels; c is the (0-based)
\* buffer index, advanced together with chn.
RECURSIVE InnerLoop(_, _, _, _, _, _)
InnerLoop(channels, buffer, c, chn, numChannels, format) ==
  IF chn < numChannels
    THEN InnerLoop(
           [channels EXCEPT ![chn + 1] = TrackAppend(@, buffer[c + 1], format)],
           buffer, c + 1, chn + 1, numChannels, format)
    ELSE channels

\* Lines 201-206: the outer loop, while c < samplesRead * mNumChannels (a
\* product far below 2^32 for the chunk size and channel counts of the
\* source, so it is not reduced modulo the scaled counter width).
RECURSIVE OuterLoop(_, _, _, _, _, _)
OuterLoop(channels, buffer, c, nRead, numChannels, format) ==
  IF c < nRead * numChannels
    THEN OuterLoop(InnerLoop(channels, buffer, c, 0, numChannels, format),
                   buffer, c + numChannels, nRead, numChannels, format)
    ELSE channels

\* A variant that reads the buffer as planar (channel after channel).
DeInterleave_Planar(channels, buffer, nRead, numChannels, format) ==
  [ch \in 1 .. numChannels |->
     [channels[ch] EXCEPT !.samples =
        @ \o [k \in 1 .. nRead |->
                ReadSample(buffer[(ch - 1) * nRead + k], format)]]]

DeInterleave(channels, buffer, nRead, numChannels, format) ==
  OuterLoop(channels, buffer, 0, nRead, numChannels, format)

\* Line 208: totalSamplesRead += samplesRead on a uint32_t.
AddSamples(total, nRead) == (total + nRead) % CounterMod

\* A variant that goes on after an empty chunk.
LoopContinues_IgnoresCount(result, nRead) == result = Success

\* Line 210: the loop condition.
LoopContinues(result, nRead) == result = Success /\ nRead # 0

\* A variant without the check, and one without the exemption of Stopped.
CheckShort_Unchecked(result, total, numSamples) == result
CheckShort_StopFails(result, total, numSamples) ==
  IF total < numSamples THEN Failed ELSE result

\* Lines 213-214: a short decode that was not stopped by the user fails.
\* The uint32_t counter is promoted to int64_t for the comparison.
CheckShort(result, total, numSamples) ==
  IF result # Stopped /\ total < numSamples THEN Failed ELSE result

\* A variant that returns at once on Failed alone.
ReturnsEarly_FailedOnly(result) == result = Failed

\* Line 216: the results on which Import returns at once.
ReturnsEarly(result) == result = Failed \/ result = Cancelled

\* Lines 219-220: every channel flushed.
FlushAll(channels) == [c \in DOMAIN channels |-> TrackFlush(channels[c])]

\* Lines 222-223: the channel group moved into outTracks.
PushGroup(tracks, channels) ==
  IF channels # << >> THEN Append(tracks, channels) ELSE tracks

\* ------------------------------------------------------------ tag store
TAG_YEAR == "Year"
EmptyTags == [k \in {} |-> << >>]

\* The host's key/value container: Clear, HasTag and SetTag.
TagsClear(store) == EmptyTags
TagsHasTag(store, name) == name \in DOMAIN store
TagsSetTag(store, name, value) ==
  [k \in DOMAIN store \cup {name} |-> IF k = name THEN value ELSE store[k]]

\* --------------------------------------------------- strings and values
\* A value is a tuple of characters; "NUL" is the zero byte.
Digits == {"0", "1", "2", "3", "4", "5", "6", "7", "8", "9"}

\* UTF8CTOWX (lines 241, 256): conversion of a C string, which ends at the
\* first zero byte.
RECURSIVE CString(_)
CString(bytes) ==
  IF bytes = << >> \/ Head(bytes) = "NUL" THEN << >>
  ELSE << Head(bytes) >> \o CString(Tail(bytes))

\* Lines 249-254: every zero byte among the valueLen bytes becomes '\\'.
JoinValues(bytes) ==
  [j \in 1 .. Len(bytes) |-> IF bytes[j] = "NUL" THEN "\\" ELSE bytes[j]]

\* wxString::ToLong (line 260): optional blanks, optional sign, at least one
\* digit, and nothing after the digits.
RECURSIVE SkipBlanks(_)
SkipBlanks(str) ==
  IF str # << >> /\ Head(str) = " " THEN SkipBlanks(Tail(str)) ELSE str
SkipSign(str) ==
  IF str # << >> /\ Head(str) \in {"+", "-"} THEN Tail(str) ELSE str
ToLong(str) ==
  LET digits == SkipSign(SkipBlanks(str))
  IN digits # << >> /\ \A j \in 1 .. Len(digits) : digits[j] \in Digits

\* wxString::Upper (line 258) on the keys the model uses.
Upper(name) ==
  CASE name = "Year" -> "YEAR"
    [] name = "date" -> "DATE"
    [] name = "Date" -> "DATE"
    [] name = "Title" -> "TITLE"
    [] OTHER -> name

\* ------------------------------------------------------- the file's tag
\* A file's tag as the library reports it: WavpackGetMode's MODE_VALID_TAG
\* and MODE_APETAG bits and the items in index order, each a key and the
\* raw bytes of its value.
TagKeys == {TAG_YEAR, "DATE", "date", "Title"}
V_1999 == << "1", "9", "9", "9" >>
V_multi == << "1", "9", "NUL", "a" >>
RawValues == {V_1999, V_multi}
TagItems == [key : TagKeys, value : RawValues]

ItemLists(maxItems) ==
  UNION {[1 .. n -> TagItems] : n \in 0 .. maxItems}

NoTag == [validTag |-> FALSE, apeTag |-> FALSE, items |-> << >>]
TagFiles(maxItems) ==
  {NoTag} \cup
  [validTag : {TRUE}, apeTag : BOOLEAN, items : ItemLists(maxItems)]

\* WavpackGetNumTagItems (line 228).
WavpackGetNumTagItems(file) == Len(file.items)

\* WavpackGetTagItemIndexed (lines 238-240): the key of item i.
WavpackGetTagItemIndexed(file, i) == file.items[i + 1].key

\* WavpackGetTagItem (lines 244-246): the value stored under a key; the
\* library compares keys without regard to case and returns the first match.
WavpackGetTagItem(file, item) ==
  LET matches == {j \in 1 .. Len(file.items) :
                    Upper(file.items[j].key) = Upper(item)}
      first == CHOOSE j \in matches : \A m \in matches : j <= m
  IN file.items[first].value

\* Lines 244-256: the value handed to SetTag for an item key.
ItemValue(file, item) ==
  LET raw == WavpackGetTagItem(file, item)
  IN CString(IF file.apeTag THEN JoinValues(raw) ELSE raw)

\* A variant that renames without looking for a TAG_YEAR entry.
ItemName_NoYearCheck(store, name, value) ==
  IF Upper(name) = "DATE" /\ Len(value) = 4 /\ ToLong(value)
    THEN TAG_YEAR
    ELSE name

\* Lines 258-263: the name handed to SetTag.
ItemName(store, name, value) ==
  IF Upper(name) = "DATE" /\ ~TagsHasTag(store, TAG_YEAR)
       /\ Len(value) = 4 /\ ToLong(value)
    THEN TAG_YEAR
    ELSE name

\* The tag store together with the calls made on it.
Tagged(store, calls) == [store |-> store, calls |-> calls]

\* Lines 233-268: one iteration of the item loop.
CopyItem(t, file, i) ==
  LET item == WavpackGetTagItemIndexed(file, i)
      value == ItemValue(file, item)
      name == ItemName(t.store, item, value)
  IN Tagged(TagsSetTag(t.store, name, value),
            Append(t.calls, << "SetTag", name, value >>))

\* Lines 232-269: the item loop.
RECURSIVE CopyItems(_, _, _)
CopyItems(t, file, i) ==
  IF i < WavpackGetNumTagItems(file)
    THEN CopyItems(CopyItem(t, file, i), file, i + 1)
    ELSE t

\* A variant that does not clear the store.
CopyTags_NoClear(t, file) ==
  IF file.validTag /\ WavpackGetNumTagItems(file) > 0
    THEN CopyItems(t, file, 0)
    ELSE t

\* Lines 225-271: the tag copy.
CopyTags(t, file) ==
  IF file.validTag /\ WavpackGetNumTagItems(file) > 0
    THEN CopyItems(Tagged(TagsClear(t.store),
                          Append(t.calls, << "Clear" >>)), file, 0)
    ELSE t

\* ------------------------------------------------------ library context
\* A WavpackContext: whether it is open, the frame the decoder stands at,
\* how often it was closed, whether it was ever used while not open, and the
\* file behind it.  NoContext is the NULL pointer.
NoContext ==
  [state |-> "none", pos |-> 0, closes |-> 0, staleUse |-> FALSE,
   numChannels |-> 0, bits |-> 0, numSamples |-> 0, tag |-> NoTag]

\* WavpackOpenFileInput (line 122) returning a context for a file.
OpenedContext(file, tag) ==
  [state |-> "open", pos |-> 0, closes |-> 0, staleUse |-> FALSE,
   numChannels |-> file.numChannels, bits |-> file.bits,
   numSamples |-> file.numSamples, tag |-> tag]

\* Any library call that reads through the context pointer.
UseContext(c) == [c EXCEPT !.staleUse = @ \/ c.state # "open"]

\* WavpackCloseFile (line 293).
WavpackCloseFile(c) ==
  [c EXCEPT !.state = "closed", !.closes = @ + 1,
            !.staleUse = @ \/ c.state # "open"]

\* ------------------------------------------------------------ the handle
NoHandle ==
  [life |-> "none", mNumChannels |-> 0, mBitsPerSample |-> 0,
   mNumSamples |-> 0, mFormat |-> int16Sample, mChannels |-> << >>]

\* WavPackImportFileHandle::WavPackImportFileHandle (lines 142-162): the
\* fields read from the context, and the format.
NewHandle(c) ==
  [life |-> "live", mNumChannels |-> c.numChannels,
   mBitsPerSample |-> c.bits, mNumSamples |-> c.numSamples,
   mFormat |-> FormatOf(c.bits), mChannels |-> << >>]

\* Line 124: if (!wavpackContext).
IsNull(c) == c.state = "none"

\* A variant that leaves the context open.
Destructor_Leak(c) == c

\* WavPackImportFileHandle::~WavPackImportFileHandle (lines 291-294).
Destructor(c) == WavpackCloseFile(c)

\* --------------------------------------------------------------- the state
VARIABLES
  handle,           \* the WavPackImportFileHandle objects, by slot
  context,          \* the library's WavpackContext of each slot
  openResult,       \* what the last Open returned: 0 (nullptr) or a slot
  cur,              \* the handle executing Import, 0 when none
  pc,               \* position inside Import
  updateResult,     \* Import's local updateResult
  totalSamplesRead, \* Import's local uint32_t totalSamplesRead
  samplesRead,      \* Import's local uint32_t samplesRead
  wavpackBuffer,    \* the part of wavpackBuffer the last unpack call filled
  outTracks,        \* the caller's TrackHolders
  tags,             \* the caller's tag store
  returned,         \* what the last Import returned, "none" while it runs
  delivered,        \* history: sample counts returned by the unpack calls
  updates,          \* history: results returned by the Update calls
  tracksAtEntry,    \* history: number of groups in outTracks at entry
  tagsBefore,       \* history: the tag store at entry of Import
  tagCalls          \* history: calls made on the tag store by Import

vars == << handle, context, openResult, cur, pc, updateResult,
           totalSamplesRead, samplesRead, wavpackBuffer, outTracks, tags,
           returned, delivered, updates, tracksAtEntry, tagsBefore,
           tagCalls >>

importLocals == << updateResult, totalSamplesRead, samplesRead, wavpackBuffer >>
history == << delivered, updates, tracksAtEntry, tagsBefore, tagCalls >>

Init ==
  /\ handle = [h \in Handles |-> NoHandle]
  /\ context = [h \in Handles |-> NoContext]
  /\ openResult = 0
  /\ cur = 0
  /\ pc = "idle"
  /\ updateResult = Success
  /\ totalSamplesRead = 0
  /\ samplesRead = 0
  /\ wavpackBuffer = << >>
  /\ outTracks = << >>
  /\ tags = EmptyTags
  /\ returned = "none"
  /\ delivered = << >>
  /\ updates = << >>
  /\ tracksAtEntry = 0
  /\ tagsBefore = EmptyTags
  /\ tagCalls = << >>

\* ------------------------------------------------------------------ Open
FreeSlots(slots) == {h \in slots : handle[h].life = "none"}
NextSlot(slots) ==
  CHOOSE h \in FreeSlots(slots) : \A g \in FreeSlots(slots) : h <= g

\* What WavpackOpenFileInput can return: NULL, or a context for a file
\* (NULL alone once every slot of the model is taken).
LibraryOpens(slots, files, tagFiles) ==
  IF FreeSlots(slots) = {}
    THEN {NoContext}
    ELSE {NoContext} \cup {OpenedContext(f, t) : f \in files, t \in tagFiles}

\* WavPackImportPlugin::Open (lines 118-132), the handle's constructor
\* included: nullptr when the library returns no context, a new handle
\* owning the context otherwise.
Open(slots, files, tagFiles) ==
  /\ pc = "idle"
  /\ \E wavpackContext \in LibraryOpens(slots, files, tagFiles) :
       IF IsNull(wavpackContext)
         THEN /\ openResult' = 0
              /\ UNCHANGED << handle, context >>
         ELSE /\ FreeSlots(slots) # {}
              /\ context' = [context EXCEPT
                   ![NextSlot(slots)] = UseContext(wavpackContext)]
              /\ handle' = [handle EXCEPT
                   ![NextSlot(slots)] = NewHandle(wavpackContext)]
              /\ openResult' = NextSlot(slots)
  /\ UNCHANGED << cur, pc, importLocals, outTracks, tags, returned, history >>

\* The handle is destroyed (the unique_ptr Open returned goes away).
Destroy(h) ==
  /\ pc = "idle"
  /\ handle[h].life = "live"
  /\ context' = [context EXCEPT ![h] = Destructor(@)]
  /\ handle' = [handle EXCEPT ![h] = [@ EXCEPT !.life = "destroyed",
                                               !.mChannels = << >>]]
  /\ UNCHANGED << openResult, cur, pc, importLocals, outTracks, tags,
                  returned, history >>

\* ---------------------------------------------------------------- Import
\* Tag stores the caller may hand to Import.
CallerTags == {EmptyTags, [k \in {TAG_YEAR} |-> V_1999]}

\* Lines 176-196: outTracks cleared, channels created, locals set.  The
\* caller passes the tag store of its choice; outTracks is what the last
\* Import left in it.
ImportBegin(h) ==
  /\ pc = "idle"
  /\ handle[h].life = "live"
  /\ cur' = h
  /\ tracksAtEntry' = Len(outTracks)
  /\ outTracks' = << >>
  /\ handle' = [handle EXCEPT ![h].mChannels =
                  NewChannels(handle[h].mNumChannels, handle[h].mFormat)]
  /\ updateResult' = Success
  /\ totalSamplesRead' = 0
  /\ samplesRead' = 0
  /\ wavpackBuffer' = << >>
  /\ pc' = "unpack"
  /\ returned' = "none"
  /\ \E t \in CallerTags : tags' = t /\ tagsBefore' = t
  /\ delivered' = << >>
  /\ updates' = << >>
  /\ tagCalls' = << >>
  /\ UNCHANGED << context, openResult >>

\* Most unpack calls one Import can make: every call but the last returns
\* at least one frame.
MaxCalls(maxFrames) == maxFrames + 1

\* Lines 199-208: one WavpackUnpackSamples call asking for SAMPLES_TO_READ
\* frames, the de-interleaving of what it returned, and the counter.  The
\* decoder returns any number of frames up to the number asked for, as long
\* as the stream has that many left.
Unpack(h, maxFrames) ==
  /\ pc = "unpack"
  /\ cur = h
  /\ Len(delivered) < MaxCalls(maxFrames)
  /\ \E n \in 0 .. SAMPLES_TO_READ :
       /\ context[h].pos + n <= maxFrames
       /\ LET buf == Chunk(n, handle[h].mNumChannels,
                           handle[h].mBitsPerSample, context[h].pos)
          IN /\ wavpackBuffer' = buf
             /\ handle' = [handle EXCEPT ![h].mChannels =
                             DeInterleave(@, buf, n, handle[h].mNumChannels,
                                          handle[h].mFormat)]
       /\ samplesRead' = n
       /\ totalSamplesRead' = AddSamples(totalSamplesRead, n)
       /\ context' = [context EXCEPT
                        ![h] = [UseContext(@) EXCEPT !.pos = @ + n]]
       /\ delivered' = Append(delivered, n)
  /\ pc' = "update"
  /\ UNCHANGED << openResult, cur, updateResult, outTracks, tags, returned,
                  updates, tracksAtEntry, tagsBefore, tagCalls >>

\* Lines 209-210: mProgress->Update and the loop condition.
Update(h) ==
  /\ pc = "update"
  /\ cur = h
  /\ \E r \in ProgressResult :
       /\ updateResult' = r
       /\ updates' = Append(updates, r)
       /\ pc' = IF LoopContinues(r, samplesRead) THEN "unpack" ELSE "check"
  /\ context' = [context EXCEPT ![h] = UseContext(@)]
  /\ UNCHANGED << handle, openResult, cur, totalSamplesRead, samplesRead,
                  wavpackBuffer, outTracks, tags, returned, delivered,
                  tracksAtEntry, tagsBefore, tagCalls >>

\* Lines 213-273: the code after the loop, up to the return.  The vector
\* moved into outTracks is left empty; the next Import resizes it and
\* replaces every element before reading any.
Finish(h) ==
  /\ pc = "check"
  /\ cur = h
  /\ LET result == CheckShort(updateResult, totalSamplesRead,
                              handle[h].mNumSamples)
         t == CopyTags(Tagged(tags, tagCalls), context[h].tag)
     IN /\ returned' = result
        /\ IF ReturnsEarly(result)
             THEN UNCHANGED << handle, context, outTracks, tags, tagCalls >>
             ELSE /\ outTracks' =
                       PushGroup(outTracks, FlushAll(handle[h].mChannels))
                  /\ handle' = [handle EXCEPT ![h].mChannels = << >>]
                  /\ context' = [context EXCEPT ![h] = UseContext(@)]
                  /\ tags' = t.store
                  /\ tagCalls' = t.calls
  /\ cur' = 0
  /\ pc' = "idle"
  /\ updateResult' = Success
  /\ totalSamplesRead' = 0
  /\ samplesRead' = 0
  /\ wavpackBuffer' = << >>
  /\ UNCHANGED << openResult, delivered, updates, tracksAtEntry, tagsBefore >>

\* --------------------------------------------------------- specifications
\* The files Open can meet: channel count, bit depth, declared sample count.
Files == [numChannels : 1 .. MaxChannels, bits : BitDepths,
          numSamples : DeclaredCounts]

\* A few tags: none, an empty one, one APE item with two values.
FewTagFiles ==
  {NoTag,
   [validTag |-> TRUE, apeTag |-> TRUE, items |-> << >>],
   [validTag |-> TRUE, apeTag |-> TRUE,
    items |-> << [key |-> "Title", value |-> V_multi] >>]}

\* A few files: mono, 16 bit, of unknown length or declaring one frame.
FewFiles == [numChannels : {1}, bits : {16}, numSamples : {-1, 1}]

\* One file: mono, 16 bit, of unknown length.
OneFile == [numChannels : {1}, bits : {16}, numSamples : {-1}]

\* Spec explores the decoding in full, for one handle: every file of Files,
\* every way of cutting up to MaxFrames frames into chunks, every progress
\* result.
Next ==
  \/ Open({1}, Files, FewTagFiles)
  \/ Destroy(1)
  \/ ImportBegin(1)
  \/ Unpack(1, MaxFrames)
  \/ Update(1)
  \/ Finish(1)

Spec == Init /\ [][Next]_vars

\* FairSpec explores the decode loop for mono 16-bit files without tag, of
\* every declared length.  Import runs to completion once called: the loop
\* and the code after it are sequential code, so each of their steps is
\* taken when it is enabled.
MonoFiles == [numChannels : {1}, bits : {16}, numSamples : DeclaredCounts]

NextLoop ==
  \/ Open({1}, MonoFiles, {NoTag})
  \/ Destroy(1)
  \/ ImportBegin(1)
  \/ Unpack(1, MaxFrames)
  \/ Update(1)
  \/ Finish(1)

FairSpec ==
  /\ Init
  /\ [][NextLoop]_vars
  /\ WF_vars(Unpack(1, MaxFrames))
  /\ WF_vars(Update(1))
  /\ WF_vars(Finish(1))

\* SpecTags explores the tag copy in full, for one handle and one file:
\* every tag of up to MaxItems items.
NextTags ==
  \/ Open({1}, OneFile, TagFiles(MaxItems))
  \/ Destroy(1)
  \/ ImportBegin(1)
  \/ Unpack(1, 1)
  \/ Update(1)
  \/ Finish(1)

SpecTags == Init /\ [][NextTags]_vars

\* SpecHandles explores the life of the handles in full, for a few files:
\* any interleaving of Open, Import and destruction of up to MaxHandles
\* handles.
NextHandles ==
  \/ Open(Handles, FewFiles, {NoTag})
  \/ \E h \in Handles : Destroy(h)
  \/ \E h \in Handles : ImportBegin(h)
  \/ \E h \in Handles : Unpack(h, 1)
  \/ \E h \in Handles : Update(h)
  \/ \E h \in Handles : Finish(h)

SpecHandles == Init /\ [][NextHandles]_vars

\* ------------------------------------------------------------ properties
RECURSIVE SumSeq(_)
SumSeq(seq) == IF seq = << >> THEN 0 ELSE Head(seq) + SumSeq(Tail(seq))

\* Import has returned, and nothing was imported since.
ImportReturned == pc = "idle" /\ returned # "none"

\* The sample frames the decoder returned during the last Import.
FramesDecoded == SumSeq(delivered)

\* The result of the last Update call of the last Import.
LastUpdate == updates[Len(updates)]

\* The handle the model of the decoding imports with, and its context.
TheHandle == handle[1]
TheContext == context[1]

\* C1: whenever the last Update of the decode loop returned Cancelled, Import
\* returns Cancelled, and whenever it returned Failed, Import returns Failed,
\* whatever number of samples was decoded.
C1_CancelForwarded ==
  ImportReturned =>
    /\ LastUpdate = Cancelled => returned = Cancelled
    /\ LastUpdate = Failed => returned = Failed

\* C5: when the decode loop ends with fewer frames read than the file
\* declares and the progress result is not Stopped, Import returns Failed;
\* and Import returns Success only if at least the declared number of frames
\* was read.
C5_ShortDecodeFails ==
  ImportReturned =>
    /\ (FramesDecoded < TheHandle.mNumSamples /\ LastUpdate # Stopped)
         => returned = Failed
    /\ returned = Success => FramesDecoded >= TheHandle.mNumSamples

C5_Witness ==
  /\ ImportReturned
  /\ returned = Failed
  /\ LastUpdate = Success
  /\ FramesDecoded > 0
  /\ FramesDecoded < TheHandle.mNumSamples

\* C6: whenever Import returns Failed or Cancelled, outTracks is empty,
\* whatever it held at entry, and the tag store is as it was at entry, no
\* call having been made on it.
C6_FailureHandsNothing ==
  (ImportReturned /\ returned \in {Failed, Cancelled}) =>
    /\ outTracks = << >>
    /\ tags = tagsBefore
    /\ tagCalls = << >>

C6_Witness ==
  /\ ImportReturned
  /\ returned = Cancelled
  /\ tracksAtEntry > 0
  /\ tagsBefore # EmptyTags
  /\ TheContext.tag.items # << >>
  /\ FramesDecoded > 0

\* C9: a complete decode succeeds whatever the length: when every Update
\* returned Success and the decoder delivered exactly the declared number of
\* frames, or the declared number is -1 (unknown), Import returns Success.
C9_CompleteDecodeSucceeds ==
  (/\ ImportReturned
   /\ \A i \in 1 .. Len(updates) : updates[i] = Success
   /\ \/ FramesDecoded = TheHandle.mNumSamples
      \/ TheHandle.mNumSamples = -1)
  => returned = Success

\* The word the decoder delivers for a frame (counted from 0) and a channel
\* (counted from 1) of the stream behind the handle.
StreamWord(frame, ch) ==
  Chunk(1, TheHandle.mNumChannels, TheHandle.mBitsPerSample, frame)[ch]

\* The frame the context stood at when the last Import was entered.
FirstFrame == TheContext.pos - FramesDecoded

\* One unpack call and its de-interleaving: the track of every channel ch
\* grows by the words at the buffer positions (k-1)*N + ch, k = 1 .. the
\* number of frames returned, in that order.
C2_ChunkStep ==
  (pc = "unpack" /\ pc' = "update") =>
    LET N == TheHandle.mNumChannels
    IN /\ Len(handle'[1].mChannels) = N
       /\ Len(wavpackBuffer') = samplesRead' * N
       /\ \A ch \in 1 .. N :
            handle'[1].mChannels[ch].samples =
              handle[1].mChannels[ch].samples \o
                [k \in 1 .. samplesRead' |-> wavpackBuffer'[(k - 1) * N + ch]]

\* While Import decodes, every channel track is as long as the number of
\* frames the decoder has returned.
C2_SameLength ==
  pc \in {"unpack", "update", "check"} =>
    \A ch \in 1 .. TheHandle.mNumChannels :
      Len(TheHandle.mChannels[ch].samples) = FramesDecoded

\* C2: Import de-interleaves into one track per channel: after any sequence
\* of chunks the track of channel ch holds the words that stood at buffer
\* positions k*N + ch of each chunk, in decode order, and all N tracks have
\* the length of the total number of frames returned by the decoder.
C2_DeInterleaved == [][C2_ChunkStep /\ C2_SameLength']_vars

C2_Witness ==
  /\ pc = "update"
  /\ TheHandle.mNumChannels = MaxChannels
  /\ Len(delivered) >= 2
  /\ delivered[1] > 0
  /\ samplesRead = SAMPLES_TO_READ

\* C8: when the last Update returned Stopped, Import returns Stopped even
\* though fewer frames than declared were read; outTracks holds the channel
\* group as its single element, every track of it flushed and holding all
\* frames decoded up to and including the last chunk; and the tags are
\* copied: a valid tag with items leads to a Clear and one SetTag per item.
C8_StopKeepsPartialImport ==
  (ImportReturned /\ LastUpdate = Stopped) =>
    /\ returned = Stopped
    /\ Len(outTracks) = 1
    /\ Len(outTracks[1]) = TheHandle.mNumChannels
    /\ \A ch \in 1 .. TheHandle.mNumChannels :
         /\ outTracks[1][ch].flushed
         /\ Len(outTracks[1][ch].samples) = FramesDecoded
         /\ \A k \in 1 .. FramesDecoded :
              outTracks[1][ch].samples[k] = StreamWord(FirstFrame + k - 1, ch)
    /\ IF TheContext.tag.validTag /\ TheContext.tag.items # << >>
         THEN /\ Len(tagCalls) = 1 + Len(TheContext.tag.items)
              /\ tagCalls[1] = << "Clear" >>
              /\ \A i \in 2 .. Len(tagCalls) : tagCalls[i][1] = "SetTag"
              /\ tags # EmptyTags
         ELSE tagCalls = << >> /\ tags = tagsBefore

C8_Witness ==
  /\ ImportReturned
  /\ returned = Stopped
  /\ TheHandle.mNumChannels = MaxChannels
  /\ Len(delivered) >= 2
  /\ FramesDecoded >= 2
  /\ FramesDecoded < TheHandle.mNumSamples
  /\ tagCalls # << >>

\* The shape of the decode loop, read off the two histories: no chunk is
\* larger than SAMPLES_TO_READ; Update has been called once for every unpack
\* call (the one in progress excepted); every iteration after which the loop
\* went on returned frames and had Update return Success; and the loop is
\* left only after an iteration that returned no frame or whose Update did
\* not return Success.
C7_LoopShape ==
  /\ \A i \in 1 .. Len(delivered) : delivered[i] <= SAMPLES_TO_READ
  /\ Len(updates) = IF pc = "update" THEN Len(delivered) - 1
                                     ELSE Len(delivered)
  /\ \A i \in 1 .. Len(updates) :
       (i < Len(updates) \/ pc = "unpack")
         => (delivered[i] # 0 /\ updates[i] = Success)
  /\ (pc = "check" \/ ImportReturned)
       => /\ Len(updates) >= 1
          /\ delivered[Len(delivered)] = 0 \/ LastUpdate # Success

\* C7: the chunked decode loop terminates: each iteration asks for at most
\* SAMPLES_TO_READ frames and calls Update exactly once, the final empty
\* chunk included; the loop ends after the first iteration in which the
\* decoder returns 0 frames or Update returns something other than Success;
\* and an Import that was entered returns.
C7_LoopTerminates == []C7_LoopShape /\ ((pc # "idle") ~> ImportReturned)

C7_Witness ==
  /\ ImportReturned
  /\ returned = Success
  /\ Len(delivered) >= 3
  /\ delivered[Len(delivered)] = 0
  /\ FramesDecoded = MaxFrames

\* ------------------------------------------------- properties of the tags
\* The tag of the file behind the handle, and its items.
TheItems == TheContext.tag.items
NumItems == Len(TheItems)
HasItems == TheContext.tag.validTag /\ NumItems > 0

\* Import went past the early return and copied the tags.
TagsCopied == ImportReturned /\ returned \notin {Failed, Cancelled}

\* Raw bytes as text: in an APE tag the zero bytes that separate the values
\* of an item read as backslashes; elsewhere the text ends at the first one.
TextOf(raw) ==
  LET nuls == {j \in 1 .. Len(raw) : raw[j] = "NUL"}
  IN IF TheContext.tag.apeTag
       THEN [j \in 1 .. Len(raw) |-> IF j \in nuls THEN "\\" ELSE raw[j]]
       ELSE IF nuls = {} THEN raw
       ELSE SubSeq(raw, 1, (CHOOSE j \in nuls : \A m \in nuls : j <= m) - 1)

\* The text of item i's own value.
OwnText(i) == TextOf(TheItems[i].value)

\* The text of the value the library returns for the key of item i: that of
\* the first item carrying the key, keys compared without regard to case.
KeyText(i) ==
  LET same == {j \in 1 .. NumItems :
                 Upper(TheItems[j].key) = Upper(TheItems[i].key)}
  IN OwnText(CHOOSE j \in same : \A m \in same : j <= m)

\* A text of exactly 4 characters that reads as an integer.
IsYearText(text) ==
  /\ Len(text) = 4
  /\ LET digits == IF text[1] \in {"+", "-"} THEN Tail(text) ELSE text
     IN \A j \in 1 .. Len(digits) : digits[j] \in Digits

\* The name and the value of the SetTag call made for item i.
CallName(i) == tagCalls[i + 1][2]
CallValue(i) == tagCalls[i + 1][3]

\* The calls are a Clear followed by one SetTag per item.
ClearThenOnePerItem ==
  /\ Len(tagCalls) = NumItems + 1
  /\ tagCalls[1] = << "Clear" >>
  /\ \A i \in 1 .. NumItems : tagCalls[i + 1][1] = "SetTag"

\* The store holds what the SetTag calls set, the last call for a name
\* deciding its value, and nothing else.
StoreIsWhatWasSet ==
  /\ DOMAIN tags = {CallName(i) : i \in 1 .. NumItems}
  /\ \A i \in 1 .. NumItems :
       (\A j \in i + 1 .. NumItems : CallName(j) # CallName(i))
         => tags[CallName(i)] = CallValue(i)

\* C3 as stated: when Import returns neither Failed nor Cancelled and the
\* file has a valid tag with items, the store is cleared and SetTag is
\* called once per item, in index order, with that item's key and value, the
\* store then holding an entry for every key of the file and none from
\* before; a file without valid tag or items leaves the store unchanged.
C3_AsStated ==
  TagsCopied =>
    IF HasItems
      THEN /\ ClearThenOnePerItem
           /\ \A i \in 1 .. NumItems :
                CallName(i) = TheItems[i].key /\ CallValue(i) = OwnText(i)
           /\ DOMAIN tags = {TheItems[i].key : i \in 1 .. NumItems}
      ELSE tags = tagsBefore /\ tagCalls = << >>

\* C3 as amended: SetTag is called once per item, in index order, with the
\* value the library returns for that item's key and with that key, or with
\* TAG_YEAR in place of a DATE key; the store then holds what these calls
\* set and nothing from before; a file without valid tag or items leaves the
\* store unchanged.
C3_TagsCopied ==
  TagsCopied =>
    IF HasItems
      THEN /\ ClearThenOnePerItem
           /\ \A i \in 1 .. NumItems :
                /\ CallValue(i) = KeyText(i)
                /\ CallName(i) \in
                     (IF Upper(TheItems[i].key) = "DATE"
                        THEN {TheItems[i].key, TAG_YEAR}
                        ELSE {TheItems[i].key})
           /\ StoreIsWhatWasSet
      ELSE tags = tagsBefore /\ tagCalls = << >>

C3_Witness ==
  /\ TagsCopied
  /\ HasItems
  /\ NumItems = MaxItems
  /\ tagsBefore # EmptyTags
  /\ TAG_YEAR \notin DOMAIN tags
  /\ \E i \in 1 .. NumItems : OwnText(i) # TheItems[i].value

\* The rule of the DATE item, for the value v(i) taken as item i's value: the
\* call for item i names TAG_YEAR when the key is DATE in any case, the value
\* is a 4-character integer and no earlier call has put TAG_YEAR into the
\* cleared store; it names the item's key otherwise.
NoYearBefore(i) == \A j \in 1 .. i - 1 : CallName(j) # TAG_YEAR
DateRule(i, value) ==
  CallName(i) =
    IF Upper(TheItems[i].key) = "DATE" /\ IsYearText(value) /\ NoYearBefore(i)
      THEN TAG_YEAR
      ELSE TheItems[i].key

\* A YEAR item that precedes a DATE item is not overwritten by it, and at
\* most one item is renamed.
DateConsequences ==
  /\ \A i \in 1 .. NumItems :
       (Upper(TheItems[i].key) = "DATE"
          /\ \E j \in 1 .. i - 1 : TheItems[j].key = TAG_YEAR)
         => CallName(i) = TheItems[i].key
  /\ Cardinality({i \in 1 .. NumItems : CallName(i) # TheItems[i].key}) <= 1

\* C10 as stated: the rule of the DATE item with each item's own value.
C10_AsStated ==
  (TagsCopied /\ HasItems) =>
    /\ \A i \in 1 .. NumItems : DateRule(i, OwnText(i))
    /\ DateConsequences

\* C10 as amended: the rule of the DATE item with the value the library
\* returns for the item's key, which is the value of the first item that
\* carries the key.
C10_DateToYear ==
  (TagsCopied /\ HasItems) =>
    /\ \A i \in 1 .. NumItems : DateRule(i, KeyText(i))
    /\ DateConsequences

C10_Witness ==
  /\ TagsCopied
  /\ HasItems
  /\ NumItems >= 2
  /\ TheItems[1].key = TAG_YEAR
  /\ TheItems[2].key = "date"
  /\ IsYearText(KeyText(2))
  /\ tags[TAG_YEAR] # KeyText(2)
  /\ tags["date"] = KeyText(2)

\* ---------------------------------------------- properties of the handles
\* A slot without handle has no context; a live handle owns an open context
\* that was never closed; a destroyed handle's context is closed and was
\* closed once; no context was used while not open.
C4_Owned ==
  \A h \in Handles :
    /\ handle[h].life = "none" <=> context[h].state = "none"
    /\ handle[h].life = "live" =>
         (context[h].state = "open" /\ context[h].closes = 0)
    /\ handle[h].life = "destroyed" =>
         (context[h].state = "closed" /\ context[h].closes = 1)
    /\ ~context[h].staleUse

\* A handle comes into being only as the result of an Open that got a
\* context, and an Open that returns nullptr creates none; a context is
\* closed only in the step that destroys its handle.
C4_Step ==
  /\ \A h \in Handles :
       (handle[h].life = "none" /\ handle'[h].life # "none")
         => (openResult' = h /\ context'[h].state = "open")
  /\ (openResult # 0 /\ openResult' = 0)
       => (handle' = handle /\ context' = context)
  /\ \A h \in Handles :
       context'[h].closes # context[h].closes
         => (handle[h].life = "live" /\ handle'[h].life = "destroyed")

\* C4: Open returns nullptr and creates no handle when the library returns
\* no context, and a handle owning the context otherwise; over any sequence
\* of Open, Import and destruction every opened context is closed exactly
\* once, at the destruction of its handle, and never used after that.
C4_ContextLifecycle == []C4_Owned /\ [][C4_Step]_vars

C4_Witness ==
  /\ \A h \in Handles : handle[h].life = "destroyed"
  /\ ImportReturned
  /\ openResult = 0

====
